---- MODULE Spec2Model ----
(***************************************************************************)
(* ezpg: the two connection-pool facades (SyncDatabasePool over            *)
(* psycopg_pool.ConnectionPool, AsyncDatabasePool over asyncpg.Pool) and   *)
(* their module-level singletons, as one state machine.                    *)
(*                                                                         *)
(* None is modelled as 0: facades, pools and writes are numbered from 1.   *)
(* Callers are threads (sync mode) or tasks (async mode); an action is one *)
(* stretch of a call between two points where another caller may run (an  *)
(* await in the async code, any pool or database call in the sync code).   *)
(* The underlying pool library is the environment: its documented          *)
(* behaviour at each call site of the facade is what the actions state.    *)
(*                                                                         *)
(* History: `last` is the call that returned in the step just taken (what  *)
(* was called, on what, and what the caller got back), NoEvent when none   *)
(* did; the fields virgin, borrows and                                     *)
(* failedAt of a call, and the variables everInitialized, lastInit,        *)
(* lifecycle and aborted, record what happened and steer nothing.          *)
(***************************************************************************)
EXTENDS Integers, Sequences, FiniteSets, TLC

\* ------------------------------------------------------------- bounds
NumCallers == 2
MaxFacades == 2
MaxDirect == 1
MaxPools == 2
MaxWrites == 2
MaxBatch == 2
MaxTimeout == 2
MaxDuration == 3
MaxRows == 2
MaxColumns == 2
MaxPhysical == 3

Callers == 1..NumCallers
Facades == 1..MaxFacades
Pools == 1..MaxPools

\* The max_connections values an application configures its facades with.
MaxConnChoices == {1, 2}

Modes == {"sync", "async"}

\* The operations that go through acquire().
ScopeKinds == {"acquire", "transaction"}
StatementKinds == {"execute", "fetch", "fetchrow", "fetchval"}
QueryKinds == ScopeKinds \cup StatementKinds \cup {"executemany"}

\* The errors pool construction can end with: a server-reported error
\* (asyncpg.PostgresError and its psycopg counterpart) or any other exception
\* (OSError for an unreachable host, ValueError for bad sizes, ...).
InitErrors == {"PostgresError", "OSError"}

VARIABLES
    mode,             \* which of the two modules this run is about
    max_connections,  \* the max_connections the application configures
    nFacades,         \* facade objects constructed so far (1..nFacades exist)
    facadePool,       \* facade -> self._pool (0: None)
    facadeMax,        \* facade -> self.max_connections
    db_pool,          \* the module-level _sync_db_pool / _async_db_pool (0: None)
    nPools,           \* library pools constructed so far
    poolState,        \* pool -> "none" | "open" | "closed"
    poolMax,          \* pool -> max_size
    borrowed,         \* pool -> connections currently lent out
    pc,               \* caller -> where the caller is in its call
    call,             \* caller -> the call in progress (NoCall when idle)
    conn,             \* caller -> the pool its borrowed connection is from (0: none)
    intx,             \* caller -> inside conn.transaction()
    writes,           \* caller -> the writes made in the scope in progress
    executed,         \* caller -> items of the executemany batch run so far
    committed,        \* the writes visible in the database
    nextWrite,        \* the next fresh write
    last,             \* the call that returned in the last step, if one did (history)
    everInitialized,  \* facade -> some initialize() on it has succeeded (history)
    lastInit,         \* the facade the most recent init_*() created (history)
    lifecycle,        \* "never" | "inited" | "closed": the last init_*/close_* (history)
    aborted,          \* the writes of scopes that ended in an error (history)
    tq,               \* one query of the async facade against its deadline
    rq,               \* one statement operation: its inputs and what came of it
    twin,             \* the same operation called with another timeout
    cp                \* one asyncpg pool: its physical connections and their codecs

vars == <<mode, max_connections, nFacades, facadePool, facadeMax, db_pool, nPools, poolState,
          poolMax, borrowed, pc, call, conn, intx, writes, executed,
          committed, nextWrite, last, everInitialized, lastInit, lifecycle,
          aborted, tq, rq, twin, cp>>

config == <<mode, max_connections>>
results == <<rq, twin>>
static == <<config, tq, results, cp>>
facadeVars == <<nFacades, facadePool, facadeMax, everInitialized>>
poolVars == <<nPools, poolState, poolMax>>
dbVars == <<committed, nextWrite, aborted>>
scopeVars == <<conn, intx, writes, executed>>
singletonVars == <<db_pool, lastInit, lifecycle>>

\* ------------------------------------------------------------ helpers

NoCall ==
    [kind |-> "none", facade |-> 0, made |-> 0, pool |-> 0, n |-> 0,
     res |-> "none", virgin |-> FALSE, borrows |-> 0, waited |-> FALSE,
     failedAt |-> 0]

\* A call: what is called (kind), on which facade, with a batch of n items;
\* made is the facade the call constructed, pool the library pool it works
\* on, res how its body ended. virgin: the facade had never been initialized
\* when the call was made; borrows: the connections it has borrowed; waited:
\* it had to wait for one; failedAt: the first item of its batch that failed.
NewCall(k, f, n) ==
    [NoCall EXCEPT !.kind = k, !.facade = f, !.n = n,
                   !.virgin = (f # 0 /\ ~everInitialized[f])]

NoEvent ==
    [caller |-> 0, call |-> NoCall, result |-> "none", ret |-> 0,
     logged |-> FALSE, writes |-> {}, executed |-> <<>>]

\* Call cl of caller c returned or raised: result is "ok" or the error.
Event(c, cl, r) == [NoEvent EXCEPT !.caller = c, !.call = cl, !.result = r]

\* acquire() without its check of the handle.
NotInitialized_Unchecked(f) == FALSE

\* `if not self._pool: raise RuntimeError("... not initialized")`
NotInitialized(f) == facadePool[f] = 0

IsOpen(p) == p # 0 /\ poolState[p] = "open"

\* A pool that lends one connection more than max_size.
HasFree_OffByOne(p) == borrowed[p] <= poolMax[p]

\* The pool lends at most max_size connections at a time.
HasFree(p) == borrowed[p] < poolMax[p]

Idle == \A c \in Callers : pc[c] = "idle"

\* ------------------------------------------------------------ timeouts

\* `timeout: float | None = None`: None as a timeout.
NoTimeout == -1

\* `command_timeout=60` of create_pool, and the 60.0 of `timeout or 60.0`.
DefaultTimeout == 60

AsyncOps == StatementKinds \cup {"executemany"}
Timeouts == {NoTimeout} \cup 0..MaxTimeout
Durations == 0..MaxDuration \cup {DefaultTimeout, DefaultTimeout + 1}

\* The timeout the async facade hands to the driver for a caller's timeout t:
\* execute and executemany pass `timeout or 60.0`, the fetches pass it on.
PassedTimeout(op, t) ==
    IF op \in {"execute", "executemany"}
    THEN (IF t = NoTimeout \/ t = 0 THEN DefaultTimeout ELSE t)
    ELSE t

\* The driver's deadline: the connection's command_timeout when it is given
\* None.
Deadline(pt) == IF pt = NoTimeout THEN DefaultTimeout ELSE pt

\* A query taking d against deadline dl: the driver raises at once for a
\* deadline that is not positive, and when the query is not done in time.
TimedOutcome(d, dl) == IF dl <= 0 \/ d > dl THEN "TimeoutError" ELSE "ok"

NoQuery == [op |-> "none", timeout |-> NoTimeout, duration |-> 0, outcome |-> "none"]

\* The async facade runs the query tq.
RunTimed ==
    /\ tq.outcome = "pending"
    /\ tq' = [tq EXCEPT !.outcome =
                 TimedOutcome(tq.duration, Deadline(PassedTimeout(tq.op, tq.timeout)))]
    /\ UNCHANGED <<config, results, cp, facadeVars, singletonVars, poolVars,
                   borrowed, pc, call, last, scopeVars, dbVars>>

\* ------------------------------------------- statements and their results

\* None as a returned value, and as a returned row (a row has columns, so the
\* empty tuple is no row).
None == 0
NoRow == <<>>

\* The result set of a query that matches n rows: MaxColumns columns, every
\* cell a value of its own.
Cell(i, j) == (i - 1) * MaxColumns + j
ResultSet(n) == [i \in 1..n |-> [j \in 1..MaxColumns |-> Cell(i, j)]]

\* The values of `column`: the columns of a row, counted from 0, and one
\* index past the last.
Columns == 0..MaxColumns

\* How long a statement takes.
StatementDurations == 0..MaxDuration

Raised(e) == [result |-> e, ret |-> None, applied |-> FALSE]
Returned(v) == [result |-> "ok", ret |-> v, applied |-> TRUE]

\* An indexing that always gives the first element.
Index_First(row, column) == Returned(row[1])

\* `row[column]` / `data[0][column]`: the element of the row at the index,
\* IndexError when the row has no such element. The statement has run.
Index(row, column) ==
    IF column \in 0..(Len(row) - 1)
    THEN Returned(row[column + 1])
    ELSE [Raised("IndexError") EXCEPT !.applied = TRUE]

\* A fetchone() that gives the last row.
fetchone_Last(rows) == IF Len(rows) = 0 THEN NoRow ELSE rows[Len(rows)]

\* `cur.fetchone()` on the cursor of the statement just executed: the first
\* row of the result, None when the result has no row.
fetchone(rows) == IF Len(rows) = 0 THEN NoRow ELSE Head(rows)

\* SyncDatabasePool.fetchval from the fetchone() on.
fetchval(rows, column) ==
    LET row == fetchone(rows) IN
    IF row = NoRow THEN Returned(None) ELSE Index(row, column)

\* asyncpg's conn.fetchrow(query, *args, timeout=timeout): the first record,
\* or None if the query returned none.
conn_fetchrow(rows) == IF Len(rows) = 0 THEN NoRow ELSE Head(rows)

\* asyncpg's conn.fetchval(query, *args, column=column, timeout=timeout):
\* `if not data: return None` and `return data[0][column]`.
conn_fetchval(rows, column) ==
    IF Len(rows) = 0 THEN Returned(None) ELSE Index(Head(rows), column)

\* What operation op returns for a statement that ran and produced rows:
\* the status message (which carries the row count) from execute, nothing
\* from executemany, all rows from fetch, the first one from fetchrow, one
\* element of it from fetchval.
ReturnedBy(op, rows, column) ==
    CASE op = "execute" -> Returned(<<"status", Len(rows)>>)
      [] op = "executemany" -> Returned(None)
      [] op = "fetch" -> Returned(rows)
      [] op = "fetchrow" ->
           Returned(IF mode = "sync" THEN fetchone(rows) ELSE conn_fetchrow(rows))
      [] op = "fetchval" ->
           IF mode = "sync" THEN fetchval(rows, column)
           ELSE conn_fetchval(rows, column)

\* A sync facade that hands the timeout to the driver.
SyncPassedTimeout_PassedOn(op, t) == t

\* The timeout the sync facade hands to the driver for a caller's timeout t:
\* none. Its methods take `timeout` and their bodies never mention it.
SyncPassedTimeout(op, t) == NoTimeout

\* A statement taking d on a psycopg connection: the driver sets no deadline
\* of its own, so without a timeout the statement runs to its end.
SyncTimedOutcome(d, pt) == IF pt = NoTimeout THEN "ok" ELSE TimedOutcome(d, pt)

\* Whether the statement of call q got to its end, by the driver's clock.
Timed(q) ==
    IF mode = "sync"
    THEN SyncTimedOutcome(q.duration, SyncPassedTimeout(q.op, q.timeout))
    ELSE TimedOutcome(q.duration, Deadline(PassedTimeout(q.op, q.timeout)))

\* One call of execute / executemany / fetch / fetchrow / fetchval from the
\* statement on: cancelled at the deadline, rejected by the server, or run,
\* and then the facade's own handling of the result.
RunStatement(q) ==
    IF Timed(q) # "ok" THEN Raised(Timed(q))
    ELSE IF q.fails THEN Raised("QueryError")
    ELSE ReturnedBy(q.op, q.rows, q.column)

Pending == [result |-> "pending", ret |-> None, applied |-> FALSE]

NoStatement ==
    [op |-> "none", rows |-> <<>>, column |-> 0, timeout |-> NoTimeout,
     duration |-> 0, fails |-> FALSE, out |-> Pending]

\* The calls: an operation, the rows its query matches, the column asked
\* for, the timeout passed, how long the statement takes and whether the
\* server rejects it.
StatementCalls ==
    {[NoStatement EXCEPT !.op = op, !.rows = ResultSet(n), !.column = col,
                         !.timeout = t, !.duration = d, !.fails = fl] :
        op \in AsyncOps, n \in 0..MaxRows, col \in Columns, t \in Timeouts,
        d \in StatementDurations, fl \in BOOLEAN}

\* The facade of this run's mode runs the call rq.
RunQuery ==
    /\ rq.op # "none"
    /\ rq.out.result = "pending"
    /\ rq' = [rq EXCEPT !.out = RunStatement(rq)]
    /\ UNCHANGED <<config, tq, twin, cp, facadeVars, singletonVars, poolVars,
                   borrowed, pc, call, last, scopeVars, dbVars>>

\* ... and the call that differs from it in the timeout only.
RunTwin ==
    /\ twin.op # "none"
    /\ twin.out.result = "pending"
    /\ twin' = [twin EXCEPT !.out = RunStatement(twin)]
    /\ UNCHANGED <<config, tq, rq, cp, facadeVars, singletonVars, poolVars,
                   borrowed, pc, call, last, scopeVars, dbVars>>

\* ------------------------------------- physical connections and codecs

\* A setup hook that installs the json codec only.
SetupCodecs_JsonOnly == <<"json">>

\* _setup_connection: the type codecs it installs on a connection, in order,
\* one `await conn.set_type_codec(...)` each.
SetupCodecs == <<"json", "jsonb">>

\* A place of the pool for one physical connection: empty, or holding a
\* connection that is in the setup hook ("setup"), free ("idle") or lent.
\* id numbers the physical connections in the order they were made; for is
\* the caller a new connection is made for or lent to (0: the pool itself,
\* filling up to min_size inside create_pool); step counts the codecs the
\* hook has installed, codecs are the ones the connection has.
EmptyHolder ==
    [state |-> "empty", id |-> 0, for |-> 0, step |-> 0, codecs |-> {}]

\* The holders a pool can have, for the max_connections configured.
HolderIds == UNION {1..m : m \in MaxConnChoices}

\* The pool: "none", "creating" (inside create_pool) or "open"; made counts
\* the physical connections made so far.
NoConnections ==
    [phase |-> "none", made |-> 0, holders |-> [s \in HolderIds |-> EmptyHolder]]

\* The holders of this run's pool: max_size of them.
Holders == 1..max_connections

\* A new physical connection in holder s for caller c (0: the pool); the
\* pool was given `init=self._setup_connection` and runs the hook on it
\* before anything else sees it.
NewConnection(s, c) ==
    /\ cp.holders[s].state = "empty"
    /\ cp.made < MaxPhysical
    /\ cp' = [cp EXCEPT !.made = @ + 1,
                        !.holders[s] = [EmptyHolder EXCEPT !.state = "setup",
                                                           !.id = cp.made + 1,
                                                           !.for = c]]
    /\ UNCHANGED <<config, tq, results, facadeVars, singletonVars, poolVars,
                   borrowed, pc, call, last, scopeVars, dbVars>>

\* create_pool(min_size=...): the pool connects its first connections.
PoolConnect(s) ==
    /\ cp.phase = "creating"
    /\ s \in Holders
    /\ NewConnection(s, 0)

\* create_pool returns once its connections are set up.
PoolOpen ==
    /\ cp.phase = "creating"
    /\ \A s \in Holders : cp.holders[s].state # "setup"
    /\ cp' = [cp EXCEPT !.phase = "open"]
    /\ UNCHANGED <<config, tq, results, facadeVars, singletonVars, poolVars,
                   borrowed, pc, call, last, scopeVars, dbVars>>

\* pool.acquire() by caller c gets a holder without a connection: the pool
\* connects a new one.
AcquireConnect(c, s) ==
    /\ cp.phase = "open"
    /\ s \in Holders
    /\ NewConnection(s, c)

\* pool.acquire() by caller c gets a free connection.
AcquireIdle(c, s) ==
    /\ cp.phase = "open"
    /\ s \in Holders
    /\ cp.holders[s].state = "idle"
    /\ cp' = [cp EXCEPT !.holders[s].state = "lent", !.holders[s].for = c]
    /\ UNCHANGED <<config, tq, results, facadeVars, singletonVars, poolVars,
                   borrowed, pc, call, last, scopeVars, dbVars>>

\* _setup_connection on the connection in holder s, up to its next await:
\* the next codec is installed; after the last one the hook returns and the
\* pool keeps the connection or lends it to the caller it was made for.
SetupConnection(s) ==
    /\ s \in Holders
    /\ cp.holders[s].state = "setup"
    /\ LET h == cp.holders[s]
           k == h.step + 1
           done == k >= Len(SetupCodecs) IN
       cp' = [cp EXCEPT !.holders[s] =
                 [h EXCEPT !.step = k,
                           !.codecs = @ \cup {SetupCodecs[k]},
                           !.state = IF ~done THEN "setup"
                                     ELSE IF h.for = 0 THEN "idle" ELSE "lent"]]
    /\ UNCHANGED <<config, tq, results, facadeVars, singletonVars, poolVars,
                   borrowed, pc, call, last, scopeVars, dbVars>>

\* set_type_codec raises (the connection is lost, say): the pool closes the
\* connection, and create_pool or acquire() raises.
SetupFail(s) ==
    /\ s \in Holders
    /\ cp.holders[s].state = "setup"
    /\ cp' = [cp EXCEPT !.holders[s] = EmptyHolder]
    /\ UNCHANGED <<config, tq, results, facadeVars, singletonVars, poolVars,
                   borrowed, pc, call, last, scopeVars, dbVars>>

\* The `async with self._pool.acquire()` block exits: the connection is free.
ReleaseConnection(s) ==
    /\ s \in Holders
    /\ cp.holders[s].state = "lent"
    /\ cp' = [cp EXCEPT !.holders[s].state = "idle", !.holders[s].for = 0]
    /\ UNCHANGED <<config, tq, results, facadeVars, singletonVars, poolVars,
                   borrowed, pc, call, last, scopeVars, dbVars>>

\* A free connection is closed (idle for too long, or broken); its holder
\* connects anew when it is next acquired.
Expire(s) ==
    /\ s \in Holders
    /\ cp.phase = "open"
    /\ cp.holders[s].state = "idle"
    /\ cp' = [cp EXCEPT !.holders[s] = EmptyHolder]
    /\ UNCHANGED <<config, tq, results, facadeVars, singletonVars, poolVars,
                   borrowed, pc, call, last, scopeVars, dbVars>>

\* ------------------------------------------------------------ the start

InitProgram ==
    /\ mode \in Modes
    /\ max_connections \in MaxConnChoices
    /\ nFacades = 0
    /\ facadePool = [f \in Facades |-> 0]
    /\ facadeMax = [f \in Facades |-> 0]
    /\ db_pool = 0
    /\ nPools = 0
    /\ poolState = [p \in Pools |-> "none"]
    /\ poolMax = [p \in Pools |-> 0]
    /\ borrowed = [p \in Pools |-> 0]
    /\ pc = [c \in Callers |-> "idle"]
    /\ call = [c \in Callers |-> NoCall]
    /\ conn = [c \in Callers |-> 0]
    /\ intx = [c \in Callers |-> FALSE]
    /\ writes = [c \in Callers |-> {}]
    /\ executed = [c \in Callers |-> <<>>]
    /\ committed = {}
    /\ nextWrite = 1
    /\ last = NoEvent
    /\ everInitialized = [f \in Facades |-> FALSE]
    /\ lastInit = 0
    /\ lifecycle = "never"
    /\ aborted = {}

Init ==
    /\ InitProgram
    /\ tq = NoQuery
    /\ rq = NoStatement
    /\ twin = NoStatement
    /\ cp = NoConnections
    /\ cp = NoConnections

\* Caller c goes on inside call cl, at place p: no call returns in this step.
Goto(c, p, cl) ==
    /\ pc' = [pc EXCEPT ![c] = p]
    /\ call' = [call EXCEPT ![c] = cl]
    /\ last' = NoEvent

\* Call cl of caller c ends with event e; the caller is idle again.
Return(c, e) ==
    /\ pc' = [pc EXCEPT ![c] = "idle"]
    /\ call' = [call EXCEPT ![c] = NoCall]
    /\ last' = e

\* ---------------------------------------------------- facade lifecycle

\* SyncDatabasePool(...) / AsyncDatabasePool(...): a facade with no pool.
Construct(c) ==
    /\ pc[c] = "idle"
    /\ nFacades < MaxFacades
    /\ nFacades < MaxDirect
    /\ nFacades' = nFacades + 1
    /\ facadeMax' = [facadeMax EXCEPT ![nFacades + 1] = max_connections]
    /\ Return(c, Event(c, [NewCall("__init__", nFacades + 1, 0)
                              EXCEPT !.made = nFacades + 1], "ok"))
    /\ UNCHANGED <<static, facadePool, everInitialized, singletonVars, poolVars,
                   borrowed, scopeVars, dbVars>>

\* facade.initialize() up to the construction of the library pool.
InitializeBegin(c, f) ==
    /\ pc[c] = "idle"
    /\ f \in 1..nFacades
    /\ Goto(c, "initializing", NewCall("initialize", f, 0))
    /\ UNCHANGED <<static, facadeVars, singletonVars, poolVars, borrowed,
                   scopeVars, dbVars>>

\* The error handler of initialize(): the sync facade catches Exception, the
\* async facade only asyncpg.PostgresError; what it catches it logs, and
\* every error propagates.
ErrorLogged(e) == mode = "sync" \/ e = "PostgresError"

\* An initialize() that closes the pool the facade held before.
PoolStateAfterCreate_CloseOld(f, p) ==
    IF facadePool[f] = 0 THEN [poolState EXCEPT ![p] = "open"]
    ELSE [poolState EXCEPT ![p] = "open", ![facadePool[f]] = "closed"]

\* The pool table after initialize() on facade f has constructed pool p: the
\* new pool is open, and the pool f held before (if any) is not touched.
PoolStateAfterCreate(f, p) == [poolState EXCEPT ![p] = "open"]

\* The rest of facade.initialize(): the library constructs the pool and the
\* facade stores it, or construction raises and the handler runs.
InitializeEnd(c) ==
    /\ pc[c] = "initializing"
    /\ LET f == call[c].facade IN
        \/ /\ nPools < MaxPools
           /\ nPools' = nPools + 1
           /\ poolState' = PoolStateAfterCreate(f, nPools + 1)
           /\ poolMax' = [poolMax EXCEPT ![nPools + 1] = facadeMax[f]]
           /\ facadePool' = [facadePool EXCEPT ![f] = nPools + 1]
           /\ everInitialized' = [everInitialized EXCEPT ![f] = TRUE]
           /\ Return(c, Event(c, [call[c] EXCEPT !.pool = nPools + 1], "ok"))
        \/ \E e \in InitErrors :
             /\ Return(c, [Event(c, call[c], e) EXCEPT !.logged = ErrorLogged(e)])
             /\ UNCHANGED <<poolVars, facadePool, everInitialized>>
    /\ UNCHANGED <<static, nFacades, facadeMax, singletonVars, borrowed,
                   scopeVars, dbVars>>

\* An init_*() that keeps the instance it finds.
SingletonAfterInit_KeepOld(f) == IF db_pool # 0 THEN db_pool ELSE f

\* The module-level reference after init_*() has constructed facade f.
SingletonAfterInit(f) == f

\* init_sync_database / init_async_database up to the call of initialize():
\* a new facade is constructed and stored in the module-level variable. The
\* async function reaches its await without a suspension point; a sync
\* thread can be preempted before it reads the variable again.
init_database(c) ==
    /\ pc[c] = "idle"
    /\ nFacades < MaxFacades
    /\ LET f == nFacades + 1 IN
        /\ nFacades' = f
        /\ facadeMax' = [facadeMax EXCEPT ![f] = max_connections]
        /\ db_pool' = SingletonAfterInit(f)
        /\ lastInit' = f
        /\ lifecycle' = "inited"
        /\ Goto(c, IF mode = "async" THEN "initializing" ELSE "init_assigned",
                [NewCall("init_database", f, 0) EXCEPT !.made = f])
    /\ UNCHANGED <<static, facadePool, everInitialized, poolVars, borrowed,
                   scopeVars, dbVars>>

\* init_sync_database, `_sync_db_pool.initialize()`: the module-level
\* variable is read again and initialize() is called on what it holds now.
init_call_initialize(c) ==
    /\ pc[c] = "init_assigned"
    /\ IF db_pool = 0
       THEN Return(c, Event(c, call[c], "AttributeError"))
       ELSE Goto(c, "initializing", [call[c] EXCEPT !.facade = db_pool])
    /\ UNCHANGED <<static, facadeVars, singletonVars, poolVars, borrowed,
                   scopeVars, dbVars>>

\* `self._pool.close()`: the library pool of facade f is closed; the facade
\* keeps its reference to it.
PoolStateAfterClose(f) == [poolState EXCEPT ![facadePool[f]] = "closed"]

\* A close() that treats a missing pool as acquire() does.
CloseWithoutPool_Raises == "NotInitialized"

\* How close() ends on a facade without a pool: `if self._pool:` is skipped
\* and the method returns.
CloseWithoutPool == "ok"

\* facade.close(): nothing without a pool, else the pool is closed.
close(c, f) ==
    /\ pc[c] = "idle"
    /\ f \in 1..nFacades
    /\ IF facadePool[f] = 0
       THEN /\ Return(c, Event(c, NewCall("close", f, 0), CloseWithoutPool))
            /\ UNCHANGED poolState
       ELSE /\ Goto(c, "closing",
                    [NewCall("close", f, 0) EXCEPT !.pool = facadePool[f]])
            /\ poolState' = PoolStateAfterClose(f)
    /\ UNCHANGED <<static, facadeVars, singletonVars, nPools, poolMax, borrowed,
                   scopeVars, dbVars>>

\* The module-level reference once close_*() has closed the facade.
SingletonAfterClose == 0

\* `_db_pool.close()` inside close_*(), called on facade f by the call cl,
\* and what follows it when the caller cannot be interrupted before the
\* assignment of None (an async close() that awaits nothing).
CloseSingleton(c, cl, f) ==
    IF facadePool[f] # 0
    THEN /\ poolState' = PoolStateAfterClose(f)
         /\ Goto(c, "closing", [cl EXCEPT !.facade = f, !.pool = facadePool[f]])
         /\ UNCHANGED <<db_pool, lifecycle>>
    ELSE IF mode = "async"
    THEN /\ db_pool' = SingletonAfterClose
         /\ lifecycle' = "closed"
         /\ Return(c, Event(c, [cl EXCEPT !.facade = f], "ok"))
         /\ UNCHANGED poolState
    ELSE /\ Goto(c, "closing", [cl EXCEPT !.facade = f])
         /\ UNCHANGED <<poolState, db_pool, lifecycle>>

\* close_sync_database / close_async_database from its test of the
\* module-level variable: no instance, nothing to do. The async function goes
\* on to close() at once; a sync thread can be preempted before it does.
close_database(c) ==
    /\ pc[c] = "idle"
    /\ LET cl == NewCall("close_database", db_pool, 0) IN
       IF db_pool = 0
       THEN /\ Return(c, Event(c, cl, "ok"))
            /\ lifecycle' = "closed"
            /\ UNCHANGED <<poolState, db_pool>>
       ELSE IF mode = "sync"
       THEN /\ Goto(c, "close_checked", cl)
            /\ UNCHANGED <<poolState, db_pool, lifecycle>>
       ELSE CloseSingleton(c, cl, db_pool)
    /\ UNCHANGED <<static, facadeVars, lastInit, nPools, poolMax, borrowed,
                   scopeVars, dbVars>>

\* close_sync_database, `_sync_db_pool.close()`: the variable is read again.
close_call_close(c) ==
    /\ pc[c] = "close_checked"
    /\ IF db_pool = 0
       THEN /\ Return(c, Event(c, call[c], "AttributeError"))
            /\ UNCHANGED <<poolState, db_pool, lifecycle>>
       ELSE CloseSingleton(c, call[c], db_pool)
    /\ UNCHANGED <<static, facadeVars, lastInit, nPools, poolMax, borrowed,
                   scopeVars, dbVars>>

\* The pool's close() returns; close_*() then sets the module-level variable
\* to None, whatever it holds by now.
CloseEnd(c) ==
    /\ pc[c] = "closing"
    /\ IF call[c].kind = "close_database"
       THEN /\ db_pool' = SingletonAfterClose
            /\ lifecycle' = "closed"
       ELSE UNCHANGED <<db_pool, lifecycle>>
    /\ Return(c, Event(c, call[c], "ok"))
    /\ UNCHANGED <<static, facadeVars, lastInit, poolVars, borrowed, scopeVars,
                   dbVars>>

\* get_sync_db_pool / get_async_db_pool.
get_db_pool(c) ==
    /\ pc[c] = "idle"
    /\ Return(c, [Event(c, NewCall("get_db_pool", db_pool, 0),
                        IF db_pool = 0 THEN "NotInitialized" ELSE "ok")
                     EXCEPT !.ret = db_pool])
    /\ UNCHANGED <<static, facadeVars, singletonVars, poolVars, borrowed,
                   scopeVars, dbVars>>

\* ------------------------------------------------- acquire and queries

\* The pool's count of lent connections after it lends one from pool p.
BorrowedAfterAcquire(p) == [borrowed EXCEPT ![p] = @ + 1]

\* A release that is skipped when the scope ends in an error.
BorrowedAfterRelease_LeakOnError(c, r) ==
    IF r = "ok" THEN [borrowed EXCEPT ![conn[c]] = @ - 1] ELSE borrowed

\* The pool's count after caller c's scope has ended with result r: the
\* `with self._pool.connection()` / `async with self._pool.acquire()` block
\* gives the connection back on every exit.
BorrowedAfterRelease(c, r) == [borrowed EXCEPT ![conn[c]] = @ - 1]

\* The library lends caller c a connection of pool p; transaction() then
\* enters conn.transaction().
Lend(c, cl, p) ==
    /\ borrowed' = BorrowedAfterAcquire(p)
    /\ conn' = [conn EXCEPT ![c] = p]
    /\ intx' = [intx EXCEPT ![c] = (cl.kind = "transaction")]
    /\ Goto(c, "body", [cl EXCEPT !.pool = p, !.borrows = @ + 1])

\* acquire(), and so the start of transaction(), execute(), executemany(),
\* fetch(), fetchrow() and fetchval() on facade f: the check of the handle,
\* then the pool's own acquisition (an error from a closed pool, a
\* connection if one is free, a wait otherwise).
StartQuery(c, f, k, n) ==
    /\ pc[c] = "idle"
    /\ f \in 1..nFacades
    /\ LET cl == NewCall(k, f, n)
           p == facadePool[f] IN
       IF NotInitialized(f)
       THEN /\ Return(c, Event(c, cl, "NotInitialized"))
            /\ UNCHANGED <<borrowed, conn, intx>>
       ELSE IF ~IsOpen(p)
       THEN /\ Return(c, Event(c, [cl EXCEPT !.pool = p], "PoolClosed"))
            /\ UNCHANGED <<borrowed, conn, intx>>
       ELSE IF HasFree(p)
       THEN Lend(c, cl, p)
       ELSE /\ Goto(c, "waiting", [cl EXCEPT !.pool = p, !.waited = TRUE])
            /\ UNCHANGED <<borrowed, conn, intx>>
    /\ UNCHANGED <<static, facadeVars, singletonVars, poolVars, writes,
                   executed, dbVars>>

\* A waiting caller is served once a connection of its pool is free.
Grant(c) ==
    /\ pc[c] = "waiting"
    /\ IsOpen(call[c].pool)
    /\ HasFree(call[c].pool)
    /\ Lend(c, call[c], call[c].pool)
    /\ UNCHANGED <<static, facadeVars, singletonVars, poolVars, writes,
                   executed, dbVars>>

\* A wait ends in an error when the pool is closed, and in the sync mode
\* when the pool's own default wait timeout runs out (the facade passes no
\* timeout to ConnectionPool or to connection()).
WaitFail(c) ==
    /\ pc[c] = "waiting"
    /\ \/ /\ poolState[call[c].pool] = "closed"
          /\ Return(c, Event(c, call[c], "PoolClosed"))
       \/ /\ mode = "sync"
          /\ Return(c, Event(c, call[c], "PoolTimeout"))
    /\ UNCHANGED <<static, facadeVars, singletonVars, poolVars, borrowed,
                   scopeVars, dbVars>>

\* The scope of caller c ends with result r: the connection goes back to
\* its pool and the call returns or raises r.
Release(c, r) ==
    /\ borrowed' = BorrowedAfterRelease(c, r)
    /\ conn' = [conn EXCEPT ![c] = 0]
    /\ writes' = [writes EXCEPT ![c] = {}]
    /\ executed' = [executed EXCEPT ![c] = <<>>]
    /\ Return(c, [Event(c, call[c], r) EXCEPT !.writes = writes[c],
                                              !.executed = executed[c]])

\* The body of a `with facade.acquire()` block ends, normally or by raising.
AcquireBody(c, raised) ==
    /\ pc[c] = "body"
    /\ call[c].kind = "acquire"
    /\ Release(c, IF raised THEN "BodyError" ELSE "ok")
    /\ UNCHANGED <<static, facadeVars, singletonVars, poolVars, intx, dbVars>>

\* A statement on the connection inside a `with facade.transaction()` block.
Write(c) ==
    /\ pc[c] = "body"
    /\ call[c].kind = "transaction"
    /\ nextWrite <= MaxWrites
    /\ writes' = [writes EXCEPT ![c] = @ \cup {nextWrite}]
    /\ nextWrite' = nextWrite + 1
    /\ Goto(c, "body", call[c])
    /\ UNCHANGED <<static, facadeVars, singletonVars, poolVars, borrowed,
                   conn, intx, executed, committed, aborted>>

\* A transaction block that commits however it ends.
CommittedAfterTx_AlwaysCommit(c, r) == committed \cup writes[c]

\* What is visible in the database after the conn.transaction() block of
\* caller c has ended with result r: commit on a normal end, rollback on an
\* exception.
CommittedAfterTx(c, r) == IF r = "ok" THEN committed \cup writes[c] ELSE committed

\* The body of a `with facade.transaction()` block ends, normally or by
\* raising, and conn.transaction() exits; the connection is still held.
TxEnd(c, raised) ==
    /\ pc[c] = "body"
    /\ call[c].kind = "transaction"
    /\ LET r == IF raised THEN "BodyError" ELSE "ok" IN
        /\ committed' = CommittedAfterTx(c, r)
        /\ aborted' = IF raised THEN aborted \cup writes[c] ELSE aborted
        /\ Goto(c, "exit", [call[c] EXCEPT !.res = r])
    /\ intx' = [intx EXCEPT ![c] = FALSE]
    /\ UNCHANGED <<static, facadeVars, singletonVars, poolVars, borrowed,
                   conn, writes, executed, nextWrite>>

\* The acquire() block around conn.transaction() exits.
TxRelease(c) ==
    /\ pc[c] = "exit"
    /\ call[c].kind = "transaction"
    /\ Release(c, call[c].res)
    /\ UNCHANGED <<static, facadeVars, singletonVars, poolVars, intx, dbVars>>

\* How one statement can end: the async driver has a deadline for it.
StatementOutcomes ==
    {"ok", "QueryError"} \cup (IF mode = "async" THEN {"TimeoutError"} ELSE {})

\* execute / fetch / fetchrow / fetchval: the one statement runs on the
\* borrowed connection and the acquire() block exits.
Statement(c, r) ==
    /\ pc[c] = "body"
    /\ call[c].kind \in StatementKinds
    /\ r \in StatementOutcomes
    /\ Release(c, r)
    /\ UNCHANGED <<static, facadeVars, singletonVars, poolVars, intx, dbVars>>

\* A batch that goes on after a failed item.
AfterItem_GoOn(ok) == "body"

\* Where executemany goes after an item: on to the next item if it
\* succeeded; the first error aborts the batch.
AfterItem(ok) == IF ok THEN "body" ELSE "exit"

\* executemany: the driver runs the statement for the next parameter tuple.
Item(c, ok) ==
    /\ pc[c] = "body"
    /\ call[c].kind = "executemany"
    /\ Len(executed[c]) < call[c].n
    /\ LET i == Len(executed[c]) + 1 IN
        /\ executed' = [executed EXCEPT ![c] = Append(@, i)]
        /\ Goto(c, AfterItem(ok),
                IF ok THEN call[c]
                ELSE [call[c] EXCEPT !.res = "QueryError",
                                     !.failedAt = IF @ = 0 THEN i ELSE @])
    /\ UNCHANGED <<static, facadeVars, singletonVars, poolVars, borrowed,
                   conn, intx, writes, dbVars>>

\* executemany: the batch is through, or was aborted; the acquire() block
\* exits.
BatchEnd(c) ==
    /\ call[c].kind = "executemany"
    /\ \/ /\ pc[c] = "body"
          /\ Len(executed[c]) = call[c].n
          /\ Release(c, IF call[c].failedAt = 0 THEN "ok" ELSE call[c].res)
       \/ /\ pc[c] = "exit"
          /\ Release(c, call[c].res)
    /\ UNCHANGED <<static, facadeVars, singletonVars, poolVars, intx, dbVars>>

\* ------------------------------------------------------ specifications

FacadeLifecycle(c) ==
    \/ Construct(c)
    \/ \E f \in Facades : InitializeBegin(c, f)
    \/ InitializeEnd(c)
    \/ \E f \in Facades : close(c, f)
    \/ CloseEnd(c)

SingletonLifecycle(c) ==
    \/ init_database(c)
    \/ init_call_initialize(c)
    \/ close_database(c)
    \/ close_call_close(c)
    \/ get_db_pool(c)

Scope(c) ==
    \/ \E f \in Facades, k \in QueryKinds \ {"executemany"} : StartQuery(c, f, k, 0)
    \/ \E f \in Facades, n \in 0..MaxBatch : StartQuery(c, f, "executemany", n)
    \/ \E raised \in BOOLEAN : AcquireBody(c, raised)
    \/ Write(c)
    \/ \E raised \in BOOLEAN : TxEnd(c, raised)
    \/ TxRelease(c)
    \/ \E r \in {"ok", "QueryError", "TimeoutError"} : Statement(c, r)
    \/ \E ok \in BOOLEAN : Item(c, ok)
    \/ BatchEnd(c)

Contend(c) ==
    \/ Grant(c)
    \/ WaitFail(c)

\* The facades under concurrent callers.
Next == \E c \in Callers : FacadeLifecycle(c) \/ Scope(c) \/ Contend(c)

Spec == Init /\ [][Next]_vars

\* The singletons under concurrent callers.
SingletonNext == \E c \in Callers : FacadeLifecycle(c) \/ SingletonLifecycle(c)

SingletonSpec == Init /\ [][SingletonNext]_vars

\* One caller making one call after the other.
SeqNext == FacadeLifecycle(1) \/ SingletonLifecycle(1) \/ Scope(1)

SeqSpec == Init /\ [][SeqNext]_vars

\* One query of the async facade, for every operation, timeout and duration.
TimeoutInit ==
    /\ InitProgram
    /\ mode = "async"
    /\ tq \in [op : AsyncOps, timeout : Timeouts, duration : Durations,
               outcome : {"pending"}]
    /\ rq = NoStatement
    /\ twin = NoStatement
    /\ cp = NoConnections

TimeoutSpec == TimeoutInit /\ [][RunTimed]_vars

\* One statement operation, and the same with another timeout, for every
\* operation, result, column, pair of timeouts, duration and server verdict.
QueryInit ==
    /\ InitProgram
    /\ tq = NoQuery
    /\ rq \in StatementCalls
    /\ twin \in {[rq EXCEPT !.timeout = t] : t \in Timeouts}
    /\ cp = NoConnections

QuerySpec == QueryInit /\ [][RunQuery \/ RunTwin]_vars

\* The physical connections of one pool of the async facade.
CodecInit ==
    /\ InitProgram
    /\ mode = "async"
    /\ tq = NoQuery
    /\ rq = NoStatement
    /\ twin = NoStatement
    /\ cp = [NoConnections EXCEPT !.phase = "creating"]

CodecNext ==
    \/ \E s \in HolderIds : PoolConnect(s)
    \/ PoolOpen
    \/ \E c \in Callers, s \in HolderIds : AcquireConnect(c, s)
    \/ \E c \in Callers, s \in HolderIds : AcquireIdle(c, s)
    \/ \E s \in HolderIds : SetupConnection(s)
    \/ \E s \in HolderIds : SetupFail(s)
    \/ \E s \in HolderIds : ReleaseConnection(s)
    \/ \E s \in HolderIds : Expire(s)

CodecSpec == CodecInit /\ [][CodecNext]_vars

\* -------------------------------------------------------------- claims

ClosedHandleKept ==
    /\ last.call.kind = "close"
    /\ last.call.pool # 0
    /\ facadePool[last.call.facade] = last.call.pool

\* C1 (as stated): when close() returns on a facade that had a pool, the
\* facade no longer holds that pool: its handle is None (or, if initialize()
\* ran meanwhile, a new pool), so later queries fail with "not initialized".
C1_CloseNullsHandle == ~ClosedHandleKept

\* C2: a query operation (acquire, transaction, execute, executemany, fetch,
\* fetchrow, fetchval) on a facade no initialize() of which had succeeded
\* fails at once with the "not initialized" error, having borrowed no
\* connection and reached no pool; no such call is ever in progress.
C2_QueryBeforeInitializeFails ==
    /\ \A c \in Callers : call[c].kind \in QueryKinds => ~call[c].virgin
    /\ (last.call.kind \in QueryKinds /\ last.call.virgin) =>
           /\ last.result = "NotInitialized"
           /\ last.call.borrows = 0
           /\ last.call.pool = 0
           /\ conn[last.caller] = 0

C2_Witness ==
    /\ last.call.kind = "fetchval"
    /\ last.call.virgin
    /\ last.result = "NotInitialized"
    /\ nPools = 0

\* C3: every borrowed connection is held by a caller inside a scope, each
\* pool's count of lent connections is the number of callers holding one, a
\* call that returned (normally or with an error) holds none, and when no
\* call is in progress no connection is borrowed from any pool.
C3_ConnectionsReturned ==
    /\ \A p \in Pools :
           borrowed[p] = Cardinality({c \in Callers : conn[c] = p})
    /\ \A c \in Callers : conn[c] # 0 => pc[c] \in {"body", "exit"}
    /\ last.caller # 0 /\ pc[last.caller] = "idle" => conn[last.caller] = 0
    /\ Idle => \A p \in Pools : borrowed[p] = 0

C3_Witness ==
    /\ Idle
    /\ last.call.borrows = 1
    /\ last.result \in {"BodyError", "QueryError", "TimeoutError"}

\* C4: when a transaction() scope has ended by its body raising, the caller
\* gets the error and none of the scope's writes is visible, then or later;
\* when it has ended normally all of them are visible; and the connection is
\* held until the transaction has ended.
C4_TransactionAtomic ==
    /\ last.call.kind = "transaction" /\ last.result = "BodyError" =>
           last.writes \cap committed = {}
    /\ last.call.kind = "transaction" /\ last.result = "ok" =>
           last.writes \subseteq committed
    /\ last.call.kind = "transaction" /\ last.writes \cap aborted # {} =>
           last.result = "BodyError"
    /\ aborted \cap committed = {}
    /\ \A c \in Callers : writes[c] \cap committed # {} => ~intx[c]
    /\ \A c \in Callers : intx[c] => conn[c] # 0 /\ pc[c] = "body"
    /\ \A c \in Callers :
           pc[c] = "exit" /\ call[c].kind = "transaction" =>
               ~intx[c] /\ conn[c] = call[c].pool

C4_Witness ==
    /\ last.call.kind = "transaction"
    /\ last.result = "BodyError"
    /\ last.writes # {}
    /\ committed # {}

\* C5 (one caller): the module-level instance is None before any init_*()
\* and after any close_*(); get_*() raises "not initialized" exactly when it
\* is None and otherwise returns it, which is the facade the most recent
\* init_*() created; a successful init_*() leaves its facade in the variable
\* with an open pool; close_*() leaves the variable None and the pool of the
\* facade it found closed.
C5_SingletonLifecycle ==
    /\ lifecycle \in {"never", "closed"} => db_pool = 0
    /\ last.call.kind = "get_db_pool" =>
           /\ last.result = "NotInitialized" <=> db_pool = 0
           /\ last.result = "ok" => last.ret = db_pool /\ last.ret = lastInit
    /\ last.call.kind = "init_database" /\ last.result = "ok" =>
           /\ db_pool = last.call.made
           /\ lastInit = last.call.made
           /\ IsOpen(facadePool[db_pool])
    /\ last.call.kind = "close_database" =>
           /\ db_pool = 0
           /\ last.call.pool # 0 => poolState[last.call.pool] = "closed"
           /\ last.call.facade # 0 => ~IsOpen(facadePool[last.call.facade])

C5_Witness ==
    /\ last.call.kind = "get_db_pool"
    /\ last.result = "ok"
    /\ last.ret = 2
    /\ lifecycle = "inited"

\* An open pool that no facade refers to.
Leaked(p) == poolState[p] = "open" /\ \A f \in Facades : facadePool[f] # p

\* C6: an initialize() on a facade that has a pool stores a new, open pool
\* and leaves the state of the old one as it was; an init_*() that finds an
\* instance stores a new one and leaves the old facade and its pool as they
\* were; a pool no facade refers to stays open and unreferenced for good,
\* and a facade the module-level variable has dropped never returns to it.
C6_ReinitOverwritesAndLeaks ==
    /\ [][\A f \in Facades :
            facadePool[f] # 0 /\ facadePool'[f] # facadePool[f] =>
                /\ facadePool'[f] # 0
                /\ poolState[facadePool'[f]] = "none"
                /\ poolState'[facadePool'[f]] = "open"
                /\ poolState'[facadePool[f]] = poolState[facadePool[f]]]_vars
    /\ [][db_pool # 0 /\ db_pool' # 0 /\ db_pool' # db_pool =>
            /\ db_pool' = nFacades'
            /\ nFacades' = nFacades + 1
            /\ facadePool'[db_pool] = facadePool[db_pool]
            /\ poolState' = poolState]_vars
    /\ [][\A p \in Pools : Leaked(p) => Leaked(p)']_vars
    /\ [][\A f \in Facades :
            f <= nFacades /\ db_pool # f => db_pool' # f]_vars

C6_Witness ==
    /\ \E p \in Pools : Leaked(p)
    /\ db_pool = 2
    /\ IsOpen(facadePool[2])

C8_InitFailureLogged ==
    last.call.kind \in {"initialize", "init_database"} /\ last.result \in InitErrors =>
        /\ last.logged
        /\ last.call.virgin => facadePool[last.call.facade] = 0

\* C9: executemany borrows one connection and runs the items of its batch
\* in input order; after the first item that fails no further item runs and
\* the caller gets that error; without a failure every item has run.
C9_ExecuteManyInOrder ==
    /\ \A c \in Callers :
           call[c].kind = "executemany" =>
               /\ executed[c] = [i \in 1..Len(executed[c]) |-> i]
               /\ Len(executed[c]) <= call[c].n
               /\ call[c].failedAt # 0 =>
                      Len(executed[c]) = call[c].failedAt /\ pc[c] = "exit"
               /\ pc[c] \in {"body", "exit"} => call[c].borrows = 1
    /\ last.call.kind = "executemany" /\ last.call.borrows # 0 =>
           /\ last.call.borrows = 1
           /\ IF last.call.failedAt = 0
              THEN /\ last.result = "ok"
                   /\ last.executed = [i \in 1..last.call.n |-> i]
              ELSE /\ last.result = "QueryError"
                   /\ last.executed = [i \in 1..last.call.failedAt |-> i]

C9_Witness ==
    /\ last.call.kind = "executemany"
    /\ last.call.n = 2
    /\ last.call.failedAt = 1
    /\ last.result = "QueryError"
    /\ last.executed = <<1>>

\* C10 (as stated): a query of the async facade that takes longer than the
\* timeout its caller passed ends in a timeout error, for every operation.
C10_TimeoutHonoured ==
    tq.outcome \notin {"none", "pending"} /\ tq.timeout # NoTimeout
        /\ tq.duration > tq.timeout
    => tq.outcome = "TimeoutError"

\* C11: on the sync facade two calls of execute, executemany, fetch, fetchrow
\* or fetchval that differ only in the timeout passed (None included) end
\* alike: the same error or the same returned value, and the statement has
\* taken effect in both or in neither.
C11_SyncTimeoutIgnored ==
    mode = "sync" /\ rq.out.result # "pending" /\ twin.out.result # "pending" =>
        /\ rq.out.result = twin.out.result
        /\ rq.out.applied = twin.out.applied
        /\ rq.out.ret = twin.out.ret

C11_Witness ==
    /\ mode = "sync"
    /\ rq.op = "fetchval"
    /\ rq.timeout = 1 /\ rq.duration = MaxDuration
    /\ twin.timeout = NoTimeout
    /\ rq.out.result = "ok" /\ twin.out.result = "ok"
    /\ rq.out.ret = Cell(1, 2)

\* C12: on both facades fetchval on a statement that runs returns None when
\* the query matches no row, and otherwise the element at index column
\* (counted from 0) of the first row of the result.
C12_FetchvalElement ==
    /\ rq.op = "fetchval" /\ rq.out.result # "pending"
    /\ rq.timeout = NoTimeout /\ ~rq.fails
    =>  /\ Len(rq.rows) = 0 => rq.out.result = "ok" /\ rq.out.ret = None
        /\ Len(rq.rows) > 0 /\ rq.column < MaxColumns =>
               /\ rq.out.result = "ok"
               /\ rq.out.ret = rq.rows[1][rq.column + 1]

C12_Witness ==
    /\ rq.op = "fetchval" /\ rq.timeout = NoTimeout /\ ~rq.fails
    /\ Len(rq.rows) = MaxRows /\ rq.column = 1
    /\ rq.out.result = "ok" /\ rq.out.ret = Cell(1, 2)
    /\ mode = "async"

\* C13: on both facades fetchrow on a statement that runs returns the first
\* row of the result when the query matches a row and None when it matches
\* none; it raises in neither case.
C13_FetchrowFirstOrNone ==
    /\ rq.op = "fetchrow" /\ rq.out.result # "pending"
    /\ rq.timeout = NoTimeout /\ ~rq.fails
    =>  /\ rq.out.result = "ok"
        /\ Len(rq.rows) = 0 => rq.out.ret = NoRow
        /\ Len(rq.rows) > 0 => rq.out.ret = rq.rows[1]

C13_Witness ==
    /\ rq.op = "fetchrow" /\ rq.timeout = NoTimeout /\ ~rq.fails
    /\ Len(rq.rows) = 0
    /\ rq.out.result = "ok" /\ rq.out.ret = NoRow
    /\ mode = "sync"

\* C14: a close() on a facade that holds no pool, and a close_*() that finds
\* the module-level variable None, return without an error in the same step
\* and change no pool, no facade and not the module-level variable.
C14_CloseNothingIsNoOp ==
    [][(\/ last'.call.kind = "close" /\ last'.call.pool = 0
        \/ last'.call.kind = "close_database" /\ last'.call.facade = 0)
       => /\ last'.result = "ok"
          /\ pc[last'.caller] = "idle"
          /\ <<facadeVars, poolVars, borrowed>>' = <<facadeVars, poolVars, borrowed>>
          /\ db_pool' = db_pool]_vars

C14_Witness ==
    /\ last.call.kind = "close"
    /\ last.call.pool = 0
    /\ last.result = "ok"
    /\ facadePool[last.call.facade] = 0
    /\ db_pool = last.call.facade

\* C16: on the async facade every physical connection of the pool, the
\* first and every later one, has both the json and the jsonb codec from the
\* setup hook when it is free in the pool or lent to a caller; a connection
\* still in the hook is neither.
C16_CodecsBeforeLent ==
    \A s \in HolderIds :
        /\ cp.holders[s].state \in {"idle", "lent"} =>
               cp.holders[s].codecs = {"json", "jsonb"}
        /\ cp.holders[s].codecs # {"json", "jsonb"} =>
               cp.holders[s].state \in {"empty", "setup"}

C16_Witness ==
    \E s \in HolderIds :
        /\ cp.holders[s].state = "lent"
        /\ cp.holders[s].id = MaxPhysical
        /\ cp.holders[s].codecs = {"json", "jsonb"}
        /\ \E t \in HolderIds : cp.holders[t].state = "setup" /\ cp.holders[t].step = 1

\* C17 (as stated): a facade that get_*() returns has a pool (its handle is
\* not None), whatever init_*(), close_*() and get_*() calls came before.
C17_GetReturnsInitialized ==
    last.call.kind = "get_db_pool" /\ last.result = "ok" =>
        ~NotInitialized(last.ret)

\* No init_*() or close_*() call is in progress.
Serialized ==
    \A c \in Callers : call[c].kind \notin {"init_database", "close_database"}

\* The module-level variable holds the facade of the most recent init_*(),
\* that facade's pool is open, no close_*() has ended since that init_*()
\* began, and no init_*() or close_*() is in progress.
Settled ==
    /\ db_pool # 0
    /\ db_pool = lastInit
    /\ lifecycle = "inited"
    /\ IsOpen(facadePool[db_pool])
    /\ Serialized

\* In this step no caller starts an init_*(), a close_*() or a close() on
\* the facade the module-level variable holds.
NoLifecycleCallStarts ==
    \A c \in Callers :
        pc[c] = "idle" =>
            /\ call'[c].kind \notin {"init_database", "close_database"}
            /\ ~(call'[c].kind = "close" /\ call'[c].facade = db_pool)

\* C18 (as stated): under concurrent init_*() and close_*() calls, when the
\* most recent init_*() has returned successfully the module-level variable
\* holds the facade it created, with an open pool, and a step that starts
\* no close_*() or init_*() leaves that reference in place: a close_*() that
\* began earlier does not null it.
C18_InitSurvivesEarlierClose ==
    /\ [](/\ last.call.kind = "init_database" /\ last.result = "ok"
          /\ lastInit = last.call.made
          => /\ db_pool = last.call.made
             /\ IsOpen(facadePool[last.call.made]))
    /\ [][/\ last.call.kind = "init_database" /\ last.result = "ok"
          /\ lastInit = last.call.made
          /\ db_pool = last.call.made
          /\ \A c \in Callers :
                 pc[c] = "idle" =>
                     call'[c].kind \notin {"init_database", "close_database"}
          => db_pool' = last.call.made]_vars

\* C18 (amended): when an init_*() returns successfully and no close_*() or
\* other init_*() has run or begun since it began, the module-level variable
\* holds the facade it created, with an open pool; this stays so, and
\* get_*() returns that facade, until a caller starts an init_*(), a
\* close_*() or a close() on that facade.
C18_SerializedInitHolds ==
    /\ [](/\ last.call.kind = "init_database" /\ last.result = "ok"
          /\ lastInit = last.call.made /\ lifecycle = "inited" /\ Serialized
          => Settled /\ db_pool = last.call.made)
    /\ [](last.call.kind = "get_db_pool" /\ Settled =>
            last.result = "ok" /\ last.ret = lastInit)
    /\ [][Settled /\ NoLifecycleCallStarts =>
            Settled' /\ db_pool' = db_pool]_vars

C18_Witness ==
    /\ Settled
    /\ last.call.kind = "get_db_pool"
    /\ last.ret = 2
    /\ facadePool[1] # 0
    /\ poolState[facadePool[1]] = "closed"
    /\ \E c \in Callers : call[c].kind = "initialize"

====
